---- MODULE Spec2Model ----
(***************************************************************************)
(* A model of app/main.py of dreamy: one /stream request, from the         *)
(* resolution of the page URL by the metadata service (yt-dlp), through    *)
(* the opening of the media connection and the ffmpeg pipeline, to the     *)
(* delivery of the response body.                                          *)
(*                                                                         *)
(* Python values are records tagged with their type in field t.  A str is  *)
(* the sequence of its characters.  Media bytes are counted in blocks of   *)
(* BlockBytes bytes; the bytes of a stream are numbered 1, 2, ... in the   *)
(* order in which they are produced.                                       *)
(***************************************************************************)
EXTENDS Integers, Sequences, FiniteSets

(* ------------------------------ bounds -------------------------------- *)

\* Most entries of a candidate list of a metadata response.
MaxCands == 2
\* Most blocks the media URL serves.
MaxSrc == 4
\* Most blocks ffmpeg writes to its standard output.
MaxOut == 3
\* Most blocks ffmpeg writes to its standard error.
MaxErr == 4
\* Blocks each OS pipe of the subprocess holds.
PipeCap == 3
\* Bytes in one block of the model.
BlockBytes == 32768

(* -------------------------- program constants ------------------------- *)

STREAM_CHUNK_SIZE == 65536

VIDEO_FORMAT_SELECTOR ==
    "bestvideo[ext=mp4][height<=1080]+bestaudio[ext=m4a]/best[ext=mp4]/best"

VIDEO_FALLBACK_FORMAT ==
    "best[ext=mp4]/best"

AUDIO_FORMAT_SELECTOR ==
    "bestaudio/best"

\* Blocks one read of STREAM_CHUNK_SIZE bytes returns at most.
ChunkBlocks ==
    STREAM_CHUNK_SIZE \div BlockBytes

(* --------------------------- Python values ---------------------------- *)

None == [t |-> "None"]

Str(chars) == [t |-> "str", v |-> chars]

List(items) == [t |-> "list", v |-> items]

Mapping(pairs) == [t |-> "dict", v |-> pairs]

\* bool(x) of Python for the values of the model.
Truthy(x) ==
    CASE x.t = "None" -> FALSE
      [] x.t = "str"  -> Len(x.v) > 0
      [] x.t = "list" -> Len(x.v) > 0
      [] x.t = "dict" -> x.v # {}

\* a or b
Or(a, b) ==
    IF Truthy(a) THEN a ELSE b

Min(a, b) ==
    IF a < b THEN a ELSE b

Range(s) ==
    {s[i] : i \in 1..Len(s)}

(* ------------------------------- inputs ------------------------------- *)

HttpsUrl == <<"h", "t", "t", "p", "s", ":", "/", "/", "m">>

UpperHttpUrl == <<"H", "T", "T", "P", ":", "/", "/", "m">>

FileUrl == <<"f", "i", "l", "e", ":", "/", "/", "/", "e">>

Mp4 == <<"m", "p", "4">>

Webm == <<"w", "e", "b", "m">>

StreamHeaders == Mapping({<<"User-Agent", "abc">>})

InfoHeaders == Mapping({<<"X-Test", "info">>})

NoHeaders == Mapping({})

\* The dicts a candidate list may hold.
Descriptors ==
    [t : {"dict"},
     url : {None, Str(HttpsUrl), Str(UpperHttpUrl), Str(FileUrl)},
     ext : {None, Str(Mp4)},
     http_headers : {None, NoHeaders, StreamHeaders}]

\* Something in a candidate list that is no dict.
NoDict ==
    Str(<<"x">>)

\* An entry the program does not look into: one of several.
OtherEntry ==
    [t |-> "dict", url |-> Str(HttpsUrl), ext |-> None, http_headers |-> None]

\* The candidate lists: of one entry, any; of more, whose first entry is a
\* dict or is none.
CandLists ==
    {List(<<e>>) : e \in Descriptors \cup {NoDict}}
    \cup {List(<<e>> \o [i \in 1..(n - 1) |-> OtherEntry]) :
            e \in {OtherEntry, NoDict}, n \in 2..MaxCands}

\* The info objects extract_info may return to call number id.  A field
\* the program does not read, given the others, is absent (None): after a
\* true requested_downloads, requested_formats; after a candidate list with
\* entries, the url of the info object.
Infos(id) ==
    [t : {"dict"}, id : {id},
     requested_downloads : CandLists,
     requested_formats : {None},
     url : {None},
     ext : {None, Str(Webm)},
     http_headers : {None, InfoHeaders}]
    \cup
    [t : {"dict"}, id : {id},
     requested_downloads : {None, List(<<>>)},
     requested_formats : {List(<<OtherEntry>>), List(<<OtherEntry, OtherEntry>>)},
     url : {None},
     ext : {None, Str(Webm)},
     http_headers : {None, InfoHeaders}]
    \cup
    [t : {"dict"}, id : {id},
     requested_downloads : {None, List(<<>>), NoDict},
     requested_formats : {None},
     url : {None, Str(<<>>), Str(HttpsUrl), Str(FileUrl)},
     ext : {None, Str(Webm)},
     http_headers : {None, InfoHeaders}]
    \cup
    [t : {"dict"}, id : {id},
     requested_downloads : {None},
     requested_formats : {List(<<>>)},
     url : {None, Str(<<>>), Str(HttpsUrl), Str(FileUrl)},
     ext : {None, Str(Webm)},
     http_headers : {None, InfoHeaders}]

\* str(exc) of a DownloadError.
Messages ==
    {<<"b", "o", "o", "m">>, <<" ">>}

Formats ==
    {"video", "mp3"}

(* --------------------------- pure functions --------------------------- *)

IsSpace(c) ==
    c \in {" ", "\t", "\n"}

RECURSIVE LStrip(_)
LStrip(s) ==
    IF s # <<>> /\ IsSpace(Head(s)) THEN LStrip(Tail(s)) ELSE s

RECURSIVE RStrip(_)
RStrip(s) ==
    IF s # <<>> /\ IsSpace(s[Len(s)]) THEN RStrip(SubSeq(s, 1, Len(s) - 1)) ELSE s

\* s.strip()
Strip(s) ==
    RStrip(LStrip(s))

\* _select_single_stream taking the info object for the descriptor
\* without looking at its url.
SelectWithoutUrlTest(info) ==
    LET raw_candidates == Or(info.requested_downloads, info.requested_formats)
    IN  IF raw_candidates.t = "list" /\ Truthy(raw_candidates)
        THEN LET first == raw_candidates.v[1]
             IN  IF Len(raw_candidates.v) = 1 /\ first.t = "dict"
                 THEN first
                 ELSE None
        ELSE info

_select_single_stream(info) ==
    LET raw_candidates == Or(info.requested_downloads, info.requested_formats)
    IN  IF raw_candidates.t = "list" /\ Truthy(raw_candidates)
        THEN LET first == raw_candidates.v[1]
             IN  IF Len(raw_candidates.v) = 1 /\ first.t = "dict"
                 THEN first
                 ELSE None
        ELSE IF info.url.t = "str" THEN info ELSE None

_normalize_headers(headers) ==
    IF ~Truthy(headers)
    THEN {}
    ELSE headers.v

SchemeChars ==
    {"a", "b", "c", "d", "e", "f", "g", "h", "i", "j", "k", "l", "m",
     "n", "o", "p", "q", "r", "s", "t", "u", "v", "w", "x", "y", "z",
     "A", "B", "C", "D", "E", "F", "G", "H", "I", "J", "K", "L", "M",
     "N", "O", "P", "Q", "R", "S", "T", "U", "V", "W", "X", "Y", "Z",
     "0", "1", "2", "3", "4", "5", "6", "7", "8", "9", "+", "-", "."}

NonAlpha ==
    {"0", "1", "2", "3", "4", "5", "6", "7", "8", "9", "+", "-", "."}

UpperCase ==
    <<"A", "B", "C", "D", "E", "F", "G", "H", "I", "J", "K", "L", "M",
      "N", "O", "P", "Q", "R", "S", "T", "U", "V", "W", "X", "Y", "Z">>

LowerCase ==
    <<"a", "b", "c", "d", "e", "f", "g", "h", "i", "j", "k", "l", "m",
      "n", "o", "p", "q", "r", "s", "t", "u", "v", "w", "x", "y", "z">>

\* c.lower()
Lower(c) ==
    IF \E i \in 1..26 : UpperCase[i] = c
    THEN LowerCase[CHOOSE i \in 1..26 : UpperCase[i] = c]
    ELSE c

\* urlparse(url).scheme: the characters before the first colon, in lower
\* case, when they are a scheme; the empty string otherwise.
UrlScheme(url) ==
    LET colons == {i \in 1..Len(url) : url[i] = ":"}
    IN  IF colons = {}
        THEN <<>>
        ELSE LET i == CHOOSE k \in colons : \A j \in colons : k <= j
                 head == SubSeq(url, 1, i - 1)
             IN  IF /\ i > 1
                    /\ url[1] \in SchemeChars \ NonAlpha
                    /\ Range(head) \subseteq SchemeChars
                 THEN [k \in 1..Len(head) |-> Lower(head[k])]
                 ELSE <<>>

\* _ensure_http_scheme taking any scheme for a good one.
AnySchemeAccepted(url) ==
    UrlScheme(url) # <<>>

\* Whether _ensure_http_scheme(url) returns (it raises otherwise).
_ensure_http_scheme(url) ==
    UrlScheme(url) \in {<<"h", "t", "t", "p">>, <<"h", "t", "t", "p", "s">>}

(* -------------------------------- state ------------------------------- *)

VARIABLES
    pc,         \* where the handler of the request (stream) is
    format,     \* the format parameter of the request
    calls,      \* the format selectors of the extract_info calls made, in order
    shapes,     \* what kind of response each call of the resolution got
    info,       \* _extract_stream_info's info, then prepare_*'s
    stream,     \* _extract_stream_info's stream, then prepare_*'s
    request,    \* the urllib Request: its URL and headers
    result,     \* what build_stream returned: media_type and extension
    response,   \* the StreamingResponse, once created
    error,      \* the exception that left the handler
    source,     \* the HTTP response of the media URL
    proc,       \* the ffmpeg subprocess
    pipes,      \* the OS pipes of the subprocess: what each holds
    handles,    \* how often each of process.stdin/stdout/stderr was closed
    feeder,     \* the thread running pump
    gen,        \* the generator returned as the iterator
    yielded     \* the blocks the iterator yielded, in order

vars ==
    <<pc, format, calls, shapes, info, stream, request, result, response,
      error, source, proc, pipes, handles, feeder, gen, yielded>>

resolution == <<calls, shapes, info, stream>>

pipeline == <<source, proc, pipes, handles, feeder, gen, yielded>>

(* ------------------------------ exceptions ---------------------------- *)

NoError ==
    [type |-> "none", status_code |-> 0, detail |-> <<>>, at |-> "none"]

\* HTTPException(status_code, detail), raised where the handler is.
HTTPException(status_code, detail) ==
    [type |-> "HTTPException", status_code |-> status_code, detail |-> detail,
     at |-> pc]

\* An exception of another type, raised where the handler is.
Exception(type, detail) ==
    [type |-> type, status_code |-> 0, detail |-> detail, at |-> pc]

\* Raise with a handler that catches the exception and goes on to send
\* the response.
RaiseSwallowed(exc) ==
    /\ error' = exc
    /\ pc' = "respond"

\* No try block of the handler catches exc: the request ends with it.
Raise(exc) ==
    /\ error' = exc
    /\ pc' = "failed"

(* ------------------------- the parts of the state --------------------- *)

NoSelector == "None"

NoSource == [state |-> "none", size |-> 0, pos |-> 0]

NoProc ==
    [state |-> "none", returncode |-> 0, reaped |-> FALSE, blocked |-> "none",
     out |-> 0, err |-> 0]

NoPipes == [stdin |-> 0, stdout |-> <<>>, stderr |-> 0]

NoHandles == [stdin |-> 0, stdout |-> 0, stderr |-> 0]

NoFeeder == [pc |-> "none", chunk |-> 0, why |-> "none", exc |-> "none"]

NoGen == [kind |-> "none", pc |-> "none"]

NoRequest == [url |-> <<>>, headers |-> {}]

NoResult ==
    [media_type |-> <<>>, extension |-> <<>>, filename |-> <<>>, title_error |-> 0]

Init ==
    /\ pc = "stream"
    /\ format \in Formats
    /\ calls = <<>>
    /\ shapes = <<>>
    /\ info = None
    /\ stream = None
    /\ request = NoRequest
    /\ result = NoResult
    /\ response = None
    /\ error = NoError
    /\ source = NoSource
    /\ proc = NoProc
    /\ pipes = NoPipes
    /\ handles = NoHandles
    /\ feeder = NoFeeder
    /\ gen = NoGen
    /\ yielded = <<>>

(* ------------------------------ resolution ---------------------------- *)

\* The selectors prepare_video_stream and prepare_mp3_stream pass to
\* _extract_stream_info.
format_selector ==
    IF format = "video" THEN VIDEO_FORMAT_SELECTOR ELSE AUDIO_FORMAT_SELECTOR

\* fallback_selector with prepare_mp3_stream passing one too.
FallbackSelectorForBoth ==
    VIDEO_FALLBACK_FORMAT

fallback_selector ==
    IF format = "video" THEN VIDEO_FALLBACK_FORMAT ELSE NoSelector

\* The candidate list of a response: requested_downloads, or else
\* requested_formats, when that is a list.
Candidates(i) ==
    LET raw == Or(i.requested_downloads, i.requested_formats)
    IN  IF raw.t = "list" THEN raw.v ELSE <<>>

\* What kind of response i is.
Shape(i) ==
    CASE Len(Candidates(i)) >= 2 -> "multiple"
      [] Len(Candidates(i)) = 1 /\ Candidates(i)[1].t = "dict" -> "single"
      [] Len(Candidates(i)) = 1 /\ Candidates(i)[1].t # "dict" -> "malformed"
      [] Len(Candidates(i)) = 0 /\ i.url.t = "str" -> "toplevel"
      [] OTHER -> "nothing"

\* stream calls build_stream, which calls prepare_video_stream or
\* prepare_mp3_stream, which calls _extract_stream_info.
build_stream ==
    /\ pc = "stream"
    /\ pc' = "extract_primary"
    /\ UNCHANGED <<format, resolution, request, result, response, error, pipeline>>

\* The call of extract_info with format_selector, inside the try block.
ExtractPrimary ==
    /\ pc = "extract_primary"
    /\ calls' = Append(calls, format_selector)
    /\ \/ \E i \in Infos(1) :
            /\ info' = i
            /\ stream' = _select_single_stream(i)
            /\ shapes' = Append(shapes, Shape(i))
            /\ pc' = "extract_fallback"
            /\ UNCHANGED error
       \/ \E m \in Messages :
            /\ Raise(HTTPException(400,
                  IF Strip(m) # <<>> THEN Strip(m)
                  ELSE <<"Unable to resolve media stream">>))
            /\ shapes' = Append(shapes, "DownloadError")
            /\ UNCHANGED <<info, stream>>
       \/ /\ Raise(HTTPException(500, <<"Failed to resolve media stream">>))
          /\ shapes' = Append(shapes, "Exception")
          /\ UNCHANGED <<info, stream>>
    /\ UNCHANGED <<format, request, result, response, pipeline>>

\* NeedsFallback without the test of stream.
NeedsFallbackAlways ==
    fallback_selector # NoSelector

\* NeedsFallback with the test of stream turned around.
NeedsFallbackInverted ==
    stream # None /\ fallback_selector # NoSelector

\* NeedsFallback asking again only after a response with several
\* candidates.
NeedsFallbackOnlyMultiple ==
    /\ stream = None
    /\ fallback_selector # NoSelector
    /\ Len(Candidates(info)) > 1

\* Whether _extract_stream_info asks the service again.
NeedsFallback ==
    stream = None /\ fallback_selector # NoSelector

\* ExtractFallback binding the response of the second call to a name of
\* its own: the descriptor is selected from it, and info stays the
\* response of the first call.
ExtractFallbackKeepsInfo ==
    /\ pc = "extract_fallback"
    /\ IF NeedsFallback
       THEN /\ calls' = Append(calls, fallback_selector)
            /\ \/ \E i \in Infos(2) :
                    /\ stream' = _select_single_stream(i)
                    /\ shapes' = Append(shapes, Shape(i))
                    /\ pc' = "extract_return"
                    /\ UNCHANGED <<info, error>>
               \/ \E m \in Messages :
                    /\ Raise(Exception("DownloadError", m))
                    /\ shapes' = Append(shapes, "DownloadError")
                    /\ UNCHANGED <<info, stream>>
               \/ /\ Raise(Exception("Exception", <<>>))
                  /\ shapes' = Append(shapes, "Exception")
                  /\ UNCHANGED <<info, stream>>
       ELSE /\ pc' = "extract_return"
            /\ UNCHANGED <<resolution, error>>
    /\ UNCHANGED <<format, request, result, response, pipeline>>

\* if stream is None and fallback_selector is not None: the second call of
\* extract_info, outside any try block.
ExtractFallback ==
    /\ pc = "extract_fallback"
    /\ IF NeedsFallback
       THEN /\ calls' = Append(calls, fallback_selector)
            /\ \/ \E i \in Infos(2) :
                    /\ info' = i
                    /\ stream' = _select_single_stream(i)
                    /\ shapes' = Append(shapes, Shape(i))
                    /\ pc' = "extract_return"
                    /\ UNCHANGED error
               \/ \E m \in Messages :
                    /\ Raise(Exception("DownloadError", m))
                    /\ shapes' = Append(shapes, "DownloadError")
                    /\ UNCHANGED <<info, stream>>
               \/ /\ Raise(Exception("Exception", <<>>))
                  /\ shapes' = Append(shapes, "Exception")
                  /\ UNCHANGED <<info, stream>>
       ELSE /\ pc' = "extract_return"
            /\ UNCHANGED <<resolution, error>>
    /\ UNCHANGED <<format, request, result, response, pipeline>>

\* if stream is None: raise; return info, stream
ExtractReturn ==
    /\ pc = "extract_return"
    /\ IF stream = None
       THEN Raise(HTTPException(500, <<"Unable to identify a direct media stream">>))
       ELSE pc' = "prepare" /\ UNCHANGED error
    /\ UNCHANGED <<format, resolution, request, result, response, pipeline>>

(* -------------------------------- prepare ----------------------------- *)

\* headers_mapping with a test of truth for isinstance(..., Mapping): an
\* empty mapping of the descriptor gives way to the one of the info object.
HeadersMappingIfTrue ==
    IF Truthy(stream.http_headers)
    THEN stream.http_headers
    ELSE IF Truthy(info.http_headers)
         THEN info.http_headers
         ELSE None

\* The mapping prepare_video_stream and prepare_mp3_stream take the request
\* headers from.
headers_mapping ==
    IF stream.http_headers.t = "dict"
    THEN stream.http_headers
    ELSE IF info.http_headers.t = "dict"
         THEN info.http_headers
         ELSE None

\* VideoExtension looking at the info object first.
VideoExtensionInfoFirst ==
    LET e == Or(Or(info.ext, stream.ext), Str(Mp4)) IN e.v

\* The extension and media type prepare_video_stream returns.
VideoExtension ==
    LET e == Or(Or(stream.ext, info.ext), Str(Mp4)) IN e.v

VideoMediaType(extension) ==
    IF extension = Mp4
    THEN <<"v", "i", "d", "e", "o", "/", "m", "p", "4">>
    ELSE <<"v", "i", "d", "e", "o", "/">> \o extension

AudioMpeg == <<"a", "u", "d", "i", "o", "/", "m", "p", "e", "g">>

Mp3 == <<"m", "p", "3">>

\* prepare_*: the headers and the download URL, up to the call of
\* _iter_http_chunks or _transcode_to_mp3.
Prepare ==
    /\ pc = "prepare"
    /\ IF ~Truthy(stream.url)
       THEN /\ Raise(HTTPException(500, <<"Stream URL is unavailable">>))
            /\ UNCHANGED request
       ELSE /\ request' = [url |-> stream.url.v,
                           headers |-> _normalize_headers(headers_mapping)]
            /\ pc' = "ensure_scheme"
            /\ UNCHANGED error
    /\ UNCHANGED <<format, resolution, result, response, pipeline>>

\* The first statement of _iter_http_chunks and of _transcode_to_mp3.
EnsureHttpScheme ==
    /\ pc = "ensure_scheme"
    /\ IF _ensure_http_scheme(request.url)
       THEN pc' = "urlopen" /\ UNCHANGED error
       ELSE Raise(HTTPException(400, <<"Unsupported media URL scheme">>))
    /\ UNCHANGED <<format, resolution, request, result, response, pipeline>>

\* The frames of prepare_* and of the function it called are left: their
\* local variables are gone.
DropLocals ==
    /\ info' = None
    /\ stream' = None
    /\ shapes' = <<>>
    /\ request' = NoRequest

\* urlopen(request), and for the video format the rest of _iter_http_chunks
\* and of prepare_video_stream: the generator is created, not started.
UrlOpen ==
    /\ pc = "urlopen"
    /\ \/ \E code \in {403, 404} :
            /\ Raise(HTTPException(code, <<"reason">>))
            /\ source' = [source EXCEPT !.state = "failed"]
            /\ UNCHANGED <<resolution, request, result, gen>>
       \/ /\ Raise(HTTPException(500,
                IF format = "video"
                THEN <<"Unable to retrieve media stream">>
                ELSE <<"Unable to retrieve audio stream">>))
          /\ source' = [source EXCEPT !.state = "failed"]
          /\ UNCHANGED <<resolution, request, result, gen>>
       \/ \E size \in 0..MaxSrc :
            /\ source' = [state |-> "open", size |-> size, pos |-> 0]
            /\ UNCHANGED error
            /\ IF format = "video"
               THEN /\ gen' = [kind |-> "http", pc |-> "unstarted"]
                    /\ result' = [media_type |-> VideoMediaType(VideoExtension),
                                  extension |-> VideoExtension,
                                  filename |-> <<>>,
                                  title_error |-> 0]
                    /\ DropLocals
                    /\ UNCHANGED calls
                    /\ pc' = "title"
               ELSE /\ pc' = "resolve_ffmpeg"
                    /\ UNCHANGED <<resolution, request, result, gen>>
    /\ UNCHANGED <<format, response, proc, pipes, handles, feeder, yielded>>

\* ffmpeg = resolve_ffmpeg(): shutil.which finds ffmpeg or does not.
ResolveFfmpeg ==
    /\ pc = "resolve_ffmpeg"
    /\ \/ pc' = "popen" /\ UNCHANGED error
       \/ Raise(HTTPException(500, <<"ffmpeg is not available">>))
    /\ UNCHANGED <<format, resolution, request, result, response, pipeline>>

\* subprocess.Popen, and on success the rest of _transcode_to_mp3 and of
\* prepare_mp3_stream: the feeder is started and the generator created.
\* The three pipes are asked for, so that process.stdin, stdout and stderr
\* are never None.
Popen ==
    /\ pc = "popen"
    /\ \/ /\ source' = [source EXCEPT !.state = "closed"]
          /\ Raise(HTTPException(500, <<"ffmpeg is not available">>))
          /\ UNCHANGED <<resolution, request, result, proc, feeder, gen>>
       \/ /\ Raise(Exception("OSError", <<>>))
          /\ UNCHANGED <<resolution, request, result, source, proc, feeder, gen>>
       \/ /\ proc' = [NoProc EXCEPT !.state = "running"]
          /\ feeder' = [NoFeeder EXCEPT !.pc = "read"]
          /\ gen' = [kind |-> "transcode", pc |-> "unstarted"]
          /\ result' = [media_type |-> AudioMpeg, extension |-> Mp3,
                        filename |-> <<>>, title_error |-> 0]
          /\ DropLocals
          /\ pc' = "title"
          /\ UNCHANGED <<calls, error, source>>
    /\ UNCHANGED <<format, response, pipes, handles, yielded>>

(* ----------------------- the title and the response ------------------- *)

INVALID_FILENAME_CHARS ==
    {"<", ">", ":", "\"", "/", "\\", "|", "?", "*"}

\* The characters of the model with a code point under 32.
ControlChars ==
    {"\t", "\n"}

RECURSIVE CollapseSpaces(_)
\* re.sub(r"\s+", " ", s)
CollapseSpaces(s) ==
    IF s = <<>>
    THEN <<>>
    ELSE IF IsSpace(Head(s))
         THEN <<" ">> \o CollapseSpaces(LStrip(s))
         ELSE <<Head(s)>> \o CollapseSpaces(Tail(s))

RECURSIVE StripChars(_, _)
\* s.strip(chars)
StripChars(s, chars) ==
    IF s # <<>> /\ Head(s) \in chars
    THEN StripChars(Tail(s), chars)
    ELSE IF s # <<>> /\ s[Len(s)] \in chars
         THEN StripChars(SubSeq(s, 1, Len(s) - 1), chars)
         ELSE s

sanitize_filename(title, extension) ==
    LET cleaned == [i \in 1..Len(title) |->
                      IF title[i] \in ControlChars \cup INVALID_FILENAME_CHARS
                      THEN "_" ELSE title[i]]
        collapsed == Strip(CollapseSpaces(cleaned))
        stripped == StripChars(collapsed, {".", "_"})
        replaced == [i \in 1..Len(stripped) |->
                       IF stripped[i] = " " THEN "_" ELSE stripped[i]]
        sanitized == IF replaced = <<>>
                     THEN <<"d", "o", "w", "n", "l", "o", "a", "d">>
                     ELSE replaced
    IN  SubSeq(sanitized, 1, Min(Len(sanitized), 150)) \o <<".">> \o extension

\* filename = f"download.{extension}"
DownloadName(extension) ==
    <<"d", "o", "w", "n", "l", "o", "a", "d", ".">> \o extension

\* info.get("title") of the info object fetch_video_title gets.
Titles ==
    {None, Str(<<>>), Str(<<"G", " ", " ", "c">>), Str(<<":", ".">>)}

\* The status codes of the HTTPExceptions fetch_video_title raises: for a
\* DownloadError, and for another exception or a title that is missing.
TitleErrors ==
    {400, 500}

\* The except clause of stream: filename = f"download.{extension}".
TitleFailed(status_code) ==
    result' = [result EXCEPT !.filename = DownloadName(result.extension),
                             !.title_error = status_code]

\* FetchTitle without the except clause of stream: an HTTPException of
\* fetch_video_title ends the request.
FetchTitleFatal ==
    /\ pc = "title"
    /\ calls' = Append(calls, NoSelector)
    /\ \/ \E title \in Titles :
            IF Truthy(title)
            THEN /\ result' = [result EXCEPT !.filename =
                                  sanitize_filename(title.v, result.extension)]
                 /\ pc' = "respond"
                 /\ UNCHANGED error
            ELSE /\ Raise(HTTPException(500, <<"Video title is unavailable">>))
                 /\ UNCHANGED result
       \/ \E status_code \in TitleErrors :
            /\ Raise(HTTPException(status_code, <<"boom">>))
            /\ UNCHANGED result
    /\ UNCHANGED <<format, shapes, info, stream, request, response, pipeline>>

\* title = fetch_video_title(url) and filename = sanitize_filename(...), in
\* the try block of stream, whose except clause takes every HTTPException
\* fetch_video_title raises: it turns every exception of the service into
\* one, and raises one when there is no title.
FetchTitle ==
    /\ pc = "title"
    /\ calls' = Append(calls, NoSelector)
    /\ \/ \E title \in Titles :
            IF Truthy(title)
            THEN result' = [result EXCEPT !.filename =
                               sanitize_filename(title.v, result.extension)]
            ELSE TitleFailed(500)
       \/ \E status_code \in TitleErrors : TitleFailed(status_code)
    /\ pc' = "respond"
    /\ UNCHANGED <<format, shapes, info, stream, request, response, error, pipeline>>

\* response = StreamingResponse(iterator, media_type=media_type), its
\* headers, and the return of stream.
Respond ==
    /\ pc = "respond"
    /\ response' = [t |-> "StreamingResponse",
                    media_type |-> result.media_type,
                    filename |-> result.filename,
                    cache_control |-> "no-store"]
    /\ pc' = "returned"
    /\ UNCHANGED <<format, resolution, request, result, error, pipeline>>

(* ---------------------- the iterator of _iter_http_chunks ------------- *)

\* The blocks numbered from + 1 to from + n.
Blocks(from, n) ==
    [i \in 1..n |-> from + i]

\* next(iterator): the generator runs to its next yield, or to its end;
\* "with response" closes the connection when the body is left.
HttpNext ==
    /\ pc = "returned"
    /\ gen.kind = "http"
    /\ gen.pc \in {"unstarted", "suspended"}
    /\ \/ /\ source.pos < source.size
          /\ LET n == Min(ChunkBlocks, source.size - source.pos)
             IN  /\ yielded' = yielded \o Blocks(source.pos, n)
                 /\ source' = [source EXCEPT !.pos = @ + n]
          /\ gen' = [gen EXCEPT !.pc = "suspended"]
       \/ /\ source.pos = source.size
          /\ source' = [source EXCEPT !.state = "closed"]
          /\ gen' = [gen EXCEPT !.pc = "done"]
          /\ UNCHANGED yielded
       \/ /\ source' = [source EXCEPT !.state = "closed"]
          /\ gen' = [gen EXCEPT !.pc = "raised"]
          /\ UNCHANGED yielded
    /\ UNCHANGED <<pc, format, resolution, request, result, response, error,
                   proc, pipes, handles, feeder>>

\* The consumer gives the iterator up: a generator that was started gets
\* GeneratorExit at its yield and leaves the with block; the body of one
\* that was never started does not run.
HttpAbandon ==
    /\ pc = "returned"
    /\ gen.kind = "http"
    /\ gen.pc \in {"unstarted", "suspended"}
    /\ source' = IF gen.pc = "suspended"
                 THEN [source EXCEPT !.state = "closed"]
                 ELSE source
    /\ gen' = [gen EXCEPT !.pc = "closed"]
    /\ UNCHANGED <<pc, format, resolution, request, result, response, error,
                   proc, pipes, handles, feeder, yielded>>

(* ------------------------------ the feeder ---------------------------- *)

\* FeederRead with source.read() for source.read(STREAM_CHUNK_SIZE): the
\* rest of the body in one chunk.
FeederReadAll ==
    /\ feeder.pc = "read"
    /\ \/ /\ source.pos < source.size
          /\ source' = [source EXCEPT !.pos = source.size]
          /\ feeder' = [feeder EXCEPT !.pc = "write",
                                      !.chunk = source.size - source.pos]
       \/ /\ source.pos = source.size
          /\ feeder' = [feeder EXCEPT !.pc = "finally", !.why = "exhausted"]
          /\ UNCHANGED source
       \/ /\ feeder' = [feeder EXCEPT !.pc = "finally", !.why = "read raised",
                                      !.exc = "source.read"]
          /\ UNCHANGED source
    /\ UNCHANGED <<pc, format, resolution, request, result, response, error,
                   proc, pipes, handles, gen, yielded>>

\* FeederWrite without the except clause for BrokenPipeError.
FeederWriteUncaught ==
    /\ feeder.pc = "write"
    /\ \/ /\ proc.state = "running"
          /\ pipes.stdin < PipeCap
          /\ LET n == Min(feeder.chunk, PipeCap - pipes.stdin)
             IN  /\ pipes' = [pipes EXCEPT !.stdin = @ + n]
                 /\ feeder' = [feeder EXCEPT
                        !.chunk = @ - n,
                        !.pc = IF feeder.chunk = n THEN "read" ELSE "write"]
       \/ /\ proc.state = "exited"
          /\ feeder' = [feeder EXCEPT !.pc = "finally", !.chunk = 0,
                                      !.why = "BrokenPipeError",
                                      !.exc = "stdin.write"]
          /\ UNCHANGED pipes
       \/ /\ feeder' = [feeder EXCEPT !.pc = "finally", !.chunk = 0,
                                      !.why = "write raised", !.exc = "stdin.write"]
          /\ UNCHANGED pipes
    /\ UNCHANGED <<pc, format, resolution, request, result, response, error,
                   source, proc, handles, gen, yielded>>

\* chunk = source.read(STREAM_CHUNK_SIZE) in pump: a chunk, b"" at the end
\* of the body, or an exception of the transport.
FeederRead ==
    /\ feeder.pc = "read"
    /\ \/ /\ source.pos < source.size
          /\ LET n == Min(ChunkBlocks, source.size - source.pos)
             IN  /\ source' = [source EXCEPT !.pos = @ + n]
                 /\ feeder' = [feeder EXCEPT !.pc = "write", !.chunk = n]
       \/ /\ source.pos = source.size
          /\ feeder' = [feeder EXCEPT !.pc = "finally", !.why = "exhausted"]
          /\ UNCHANGED source
       \/ /\ feeder' = [feeder EXCEPT !.pc = "finally", !.why = "read raised",
                                      !.exc = "source.read"]
          /\ UNCHANGED source
    /\ UNCHANGED <<pc, format, resolution, request, result, response, error,
                   proc, pipes, handles, gen, yielded>>

\* stdin.write(chunk): the write blocks until the pipe took the whole
\* chunk; BrokenPipeError, once the subprocess is gone, ends the loop, and
\* another exception of the write ends pump.
FeederWrite ==
    /\ feeder.pc = "write"
    /\ \/ /\ proc.state = "running"
          /\ pipes.stdin < PipeCap
          /\ LET n == Min(feeder.chunk, PipeCap - pipes.stdin)
             IN  /\ pipes' = [pipes EXCEPT !.stdin = @ + n]
                 /\ feeder' = [feeder EXCEPT
                        !.chunk = @ - n,
                        !.pc = IF feeder.chunk = n THEN "read" ELSE "write"]
       \/ /\ proc.state = "exited"
          /\ feeder' = [feeder EXCEPT !.pc = "finally", !.chunk = 0,
                                      !.why = "BrokenPipeError"]
          /\ UNCHANGED pipes
       \/ /\ feeder' = [feeder EXCEPT !.pc = "finally", !.chunk = 0,
                                      !.why = "write raised", !.exc = "stdin.write"]
          /\ UNCHANGED pipes
    /\ UNCHANGED <<pc, format, resolution, request, result, response, error,
                   source, proc, handles, gen, yielded>>

\* The finally blocks of pump without their nesting: source.close() is
\* not reached when stdin.close() raised.
FeederFinallyFlat ==
    /\ feeder.pc = "finally"
    /\ handles' = [handles EXCEPT !.stdin = @ + 1]
    /\ \E close_raised \in BOOLEAN :
          /\ source' = IF close_raised
                       THEN source
                       ELSE [source EXCEPT !.state = "closed"]
          /\ LET exc == IF close_raised THEN "stdin.close" ELSE feeder.exc
             IN  feeder' = [feeder EXCEPT
                     !.exc = exc,
                     !.pc = IF exc # "none" THEN "raised" ELSE "done"]
    /\ UNCHANGED <<pc, format, resolution, request, result, response, error,
                   proc, pipes, gen, yielded>>

\* The finally blocks of pump: stdin.close(), then source.close() also
\* when stdin.close() raised; the thread ends, with the exception of the
\* close if it raised, or else with the one that ended the loop if there
\* was one.
FeederFinally ==
    /\ feeder.pc = "finally"
    /\ handles' = [handles EXCEPT !.stdin = @ + 1]
    /\ source' = [source EXCEPT !.state = "closed"]
    /\ \E close_raised \in BOOLEAN :
          LET exc == IF close_raised THEN "stdin.close" ELSE feeder.exc
          IN  feeder' = [feeder EXCEPT
                  !.exc = exc,
                  !.pc = IF exc # "none" THEN "raised" ELSE "done"]
    /\ UNCHANGED <<pc, format, resolution, request, result, response, error,
                   proc, pipes, gen, yielded>>

(* ----------------------------- the subprocess ------------------------- *)

\* The subprocess ends with returncode: its ends of the pipes close, and
\* what its standard input still held is lost.
Exited(returncode) ==
    /\ proc' = [proc EXCEPT !.state = "exited", !.returncode = returncode,
                            !.blocked = "none"]
    /\ pipes' = [pipes EXCEPT !.stdin = 0]

\* ffmpeg reads a block of its standard input.
ProcRead ==
    /\ proc.state = "running"
    /\ proc.blocked = "none"
    /\ pipes.stdin > 0
    /\ pipes' = [pipes EXCEPT !.stdin = @ - 1]
    /\ UNCHANGED <<pc, format, resolution, request, result, response, error,
                   source, proc, handles, feeder, gen, yielded>>

\* ffmpeg writes the next block of its output: the write blocks while the
\* pipe is full, and ends ffmpeg when the read end is closed.
ProcWriteOut ==
    /\ proc.state = "running"
    /\ proc.blocked \in {"none", "stdout"}
    /\ proc.out < MaxOut
    /\ IF handles.stdout > 0
       THEN Exited(1)
       ELSE IF Len(pipes.stdout) < PipeCap
            THEN /\ pipes' = [pipes EXCEPT !.stdout = Append(@, proc.out + 1)]
                 /\ proc' = [proc EXCEPT !.out = @ + 1, !.blocked = "none"]
            ELSE /\ proc.blocked = "none"
                 /\ proc' = [proc EXCEPT !.blocked = "stdout"]
                 /\ UNCHANGED pipes
    /\ UNCHANGED <<pc, format, resolution, request, result, response, error,
                   source, handles, feeder, gen, yielded>>

\* ffmpeg writes a block of diagnostics to its standard error, in the same
\* way.
ProcWriteErr ==
    /\ proc.state = "running"
    /\ proc.blocked \in {"none", "stderr"}
    /\ proc.err < MaxErr
    /\ IF handles.stderr > 0
       THEN Exited(1)
       ELSE IF pipes.stderr < PipeCap
            THEN /\ pipes' = [pipes EXCEPT !.stderr = @ + 1]
                 /\ proc' = [proc EXCEPT !.err = @ + 1, !.blocked = "none"]
            ELSE /\ proc.blocked = "none"
                 /\ proc' = [proc EXCEPT !.blocked = "stderr"]
                 /\ UNCHANGED pipes
    /\ UNCHANGED <<pc, format, resolution, request, result, response, error,
                   source, handles, feeder, gen, yielded>>

\* ffmpeg has read its input to the end, which the feeder closed, and
\* exits: with 0, or with another code when it failed.
ProcFinish ==
    /\ proc.state = "running"
    /\ proc.blocked = "none"
    /\ handles.stdin > 0
    /\ pipes.stdin = 0
    /\ \E returncode \in {0, 1} : Exited(returncode)
    /\ UNCHANGED <<pc, format, resolution, request, result, response, error,
                   source, handles, feeder, gen, yielded>>

\* ffmpeg ends early, whatever it was doing: it failed on its input, or
\* crashed.
ProcCrash ==
    /\ proc.state = "running"
    /\ Exited(1)
    /\ UNCHANGED <<pc, format, resolution, request, result, response, error,
                   source, handles, feeder, gen, yielded>>

(* ---------------------- the iterator of _transcode_to_mp3 ------------- *)

\* next(iterator): the generator runs on, to stdout.read.
TranscodeNext ==
    /\ pc = "returned"
    /\ gen.kind = "transcode"
    /\ gen.pc \in {"unstarted", "suspended"}
    /\ gen' = [gen EXCEPT !.pc = "read"]
    /\ UNCHANGED <<pc, format, resolution, request, result, response, error,
                   source, proc, pipes, handles, feeder, yielded>>

\* TranscodeRead ending the loop as soon as the subprocess is gone, with
\* output still in the pipe.
TranscodeReadEarlyEnd ==
    /\ gen.kind = "transcode"
    /\ gen.pc = "read"
    /\ \/ /\ pipes.stdout # <<>>
          /\ proc.state = "running"
          /\ LET n == Min(ChunkBlocks, Len(pipes.stdout))
             IN  /\ yielded' = yielded \o SubSeq(pipes.stdout, 1, n)
                 /\ pipes' = [pipes EXCEPT
                        !.stdout = SubSeq(@, n + 1, Len(@))]
          /\ gen' = [gen EXCEPT !.pc = "suspended"]
       \/ /\ proc.state = "exited"
          /\ gen' = [gen EXCEPT !.pc = "join"]
          /\ UNCHANGED <<pipes, yielded>>
    /\ UNCHANGED <<pc, format, resolution, request, result, response, error,
                   source, proc, handles, feeder>>

\* stdout.read(STREAM_CHUNK_SIZE): what the pipe holds, up to a chunk, is
\* yielded; b"", once the subprocess is gone and the pipe empty, ends the
\* loop.
TranscodeRead ==
    /\ gen.kind = "transcode"
    /\ gen.pc = "read"
    /\ \/ /\ pipes.stdout # <<>>
          /\ LET n == Min(ChunkBlocks, Len(pipes.stdout))
             IN  /\ yielded' = yielded \o SubSeq(pipes.stdout, 1, n)
                 /\ pipes' = [pipes EXCEPT
                        !.stdout = SubSeq(@, n + 1, Len(@))]
          /\ gen' = [gen EXCEPT !.pc = "suspended"]
       \/ /\ pipes.stdout = <<>>
          /\ proc.state = "exited"
          /\ gen' = [gen EXCEPT !.pc = "join"]
          /\ UNCHANGED <<pipes, yielded>>
    /\ UNCHANGED <<pc, format, resolution, request, result, response, error,
                   source, proc, handles, feeder>>

\* feeder.join()
TranscodeJoin ==
    /\ gen.kind = "transcode"
    /\ gen.pc = "join"
    /\ feeder.pc \in {"done", "raised"}
    /\ gen' = [gen EXCEPT !.pc = "wait"]
    /\ UNCHANGED <<pc, format, resolution, request, result, response, error,
                   source, proc, pipes, handles, feeder, yielded>>

\* The finally block of iterator: stdout.close(), stderr.close(), and a
\* subprocess that still runs is killed and waited for.
Release ==
    /\ handles' = [handles EXCEPT !.stdout = @ + 1, !.stderr = @ + 1]
    /\ proc' = [proc EXCEPT
           !.state = "exited",
           !.returncode = IF proc.state = "running" THEN -9 ELSE @,
           !.blocked = "none",
           !.reaped = TRUE]
    /\ pipes' = [stdin |-> 0, stdout |-> <<>>, stderr |-> 0]

\* returncode = process.wait(); a returncode other than 0 raises
\* RuntimeError, after stderr.read(); the finally block runs either way.
TranscodeWait ==
    /\ gen.kind = "transcode"
    /\ gen.pc = "wait"
    /\ proc.state = "exited"
    /\ Release
    /\ gen' = [gen EXCEPT !.pc = IF proc.returncode # 0 THEN "raised" ELSE "done"]
    /\ UNCHANGED <<pc, format, resolution, request, result, response, error,
                   source, feeder, yielded>>

\* The consumer gives the iterator up: a generator that was started gets
\* GeneratorExit at its yield and runs its finally block; the body of one
\* that was never started does not run.
TranscodeAbandon ==
    /\ pc = "returned"
    /\ gen.kind = "transcode"
    /\ gen.pc \in {"unstarted", "suspended"}
    /\ IF gen.pc = "suspended"
       THEN Release
       ELSE UNCHANGED <<handles, proc, pipes>>
    /\ gen' = [gen EXCEPT !.pc = "closed"]
    /\ UNCHANGED <<pc, format, resolution, request, result, response, error,
                   source, feeder, yielded>>

(* --------------------------- the finalizers --------------------------- *)

\* Nothing refers to the HTTP response any more (the handler failed, or
\* the generator that was never started is gone): the interpreter may
\* finalize it, which closes it, at a time of its choosing.
FinalizeResponse ==
    /\ source.state = "open"
    /\ \/ pc = "failed"
       \/ gen.kind = "http" /\ gen.pc = "closed"
    /\ source' = [source EXCEPT !.state = "closed"]
    /\ UNCHANGED <<pc, format, resolution, request, result, response, error,
                   proc, pipes, handles, feeder, gen, yielded>>

\* Nothing refers to the Popen object of a generator that was never
\* started: once the subprocess is gone, the interpreter may finalize the
\* object and its pipes, which reaps the subprocess and closes the pipes.
\* It keeps the object of a subprocess that still runs.
FinalizeProcess ==
    /\ gen.kind = "transcode" /\ gen.pc = "closed"
    /\ proc.state = "exited"
    /\ handles.stdout = 0 /\ handles.stderr = 0
    /\ Release
    /\ UNCHANGED <<pc, format, resolution, request, result, response, error,
                   source, feeder, gen, yielded>>

(* --------------------------- the specification ------------------------ *)

Next ==
    \/ build_stream
    \/ ExtractPrimary
    \/ ExtractFallback
    \/ ExtractReturn
    \/ Prepare
    \/ EnsureHttpScheme
    \/ UrlOpen
    \/ ResolveFfmpeg
    \/ Popen
    \/ FetchTitle
    \/ Respond
    \/ HttpNext
    \/ HttpAbandon
    \/ FeederRead
    \/ FeederWrite
    \/ FeederFinally
    \/ ProcRead
    \/ ProcWriteOut
    \/ ProcWriteErr
    \/ ProcFinish
    \/ ProcCrash
    \/ TranscodeNext
    \/ TranscodeRead
    \/ TranscodeJoin
    \/ TranscodeWait
    \/ TranscodeAbandon
    \/ FinalizeResponse
    \/ FinalizeProcess

Spec ==
    Init /\ [][Next]_vars

\* A step of the feeder thread.
FeederStep ==
    FeederRead \/ FeederWrite \/ FeederFinally

\* A step ffmpeg takes of its own: all but its failure.
ProcStep ==
    ProcRead \/ ProcWriteOut \/ ProcWriteErr \/ ProcFinish

\* A step of the iterator, and of the consumer that asks it for the next
\* chunk.
ReaderStep ==
    TranscodeNext \/ TranscodeRead \/ TranscodeJoin \/ TranscodeWait

\* The handler, the feeder thread, the subprocess and the reader each go on
\* while they can: the scheduler runs every thread and process that is not
\* blocked, the media server goes on answering, and the consumer goes on
\* asking for chunks until it gives the iterator up.
FairSpec ==
    /\ Spec
    /\ WF_vars(FeederStep)
    /\ WF_vars(ProcStep)
    /\ WF_vars(ReaderStep)

(* ------------------------------- the claims --------------------------- *)

\* The iterator has ended: exhausted, ended by an exception, or given up.
ReaderEnded ==
    gen.pc \in {"done", "raised", "closed"}

\* The pcs of the handler inside _extract_stream_info.
Extracting ==
    {"extract_primary", "extract_fallback", "extract_return"}

\* The selectors of the calls _extract_stream_info made.
ResolutionCalls ==
    SelectSeq(calls, LAMBDA c : c # NoSelector)

\* The media URLs of the model whose scheme is neither http nor https.
NonHttpUrls ==
    {FileUrl}

StreamUnavailable ==
    [type |-> "HTTPException", status_code |-> 500,
     detail |-> <<"Unable to identify a direct media stream">>,
     at |-> "extract_return"]

\* C1: once the iterator of _transcode_to_mp3 has ended, however it ended
\* (exhausted, ended by an exception, given up at any point, also before
\* the first chunk was asked for), stdout and stderr of the subprocess are
\* closed and the subprocess has ended and is reaped.
C1_TranscodeReaderReleases ==
    (gen.kind = "transcode" /\ ReaderEnded)
        => /\ handles.stdout > 0
           /\ handles.stderr > 0
           /\ proc.state = "exited"
           /\ proc.reaped

\* C2: when ffmpeg is not found or cannot be started, _transcode_to_mp3
\* fails with an HTTPException of status 500, the HTTP source it opened is
\* closed, and no feeder was started.
C2_CodecFailureClosesSource ==
    (error.at \in {"resolve_ffmpeg", "popen"})
        => /\ error.type = "HTTPException"
           /\ error.status_code = 500
           /\ source.state = "closed"
           /\ feeder.pc = "none"

\* C3: a failure of the metadata service in _extract_stream_info, in the
\* first call or in the call with the fallback selector, ends the request
\* with an HTTPException: of status 400 for a DownloadError, of status 500
\* for another exception.
C3_ServiceFailureIsHTTPException ==
    (shapes # <<>> /\ shapes[Len(shapes)] \in {"DownloadError", "Exception"})
        => /\ error.type = "HTTPException"
           /\ error.status_code =
                  IF shapes[Len(shapes)] = "DownloadError" THEN 400 ELSE 500

\* C4: the iterator of _transcode_to_mp3 raises only when the subprocess
\* ended with a returncode other than 0, and then it has yielded every
\* block the subprocess wrote to its output, once each and in order, and
\* stdout and stderr were closed once each; it never ends normally after
\* such a returncode.
C4_NonZeroExitRaisesAfterAllOutput ==
    gen.kind = "transcode"
        => /\ gen.pc = "raised"
                => /\ proc.returncode # 0
                   /\ yielded = Blocks(0, proc.out)
                   /\ handles.stdout = 1
                   /\ handles.stderr = 1
           /\ gen.pc = "done" => proc.returncode = 0

\* The subprocess wrote all the output the model lets it write and failed,
\* and the iterator raised.
C4_Witness ==
    /\ gen.kind = "transcode"
    /\ gen.pc = "raised"
    /\ proc.out >= 2
    /\ proc.returncode = 1

\* C5: once the iterator of _iter_http_chunks has ended, however it ended
\* (exhausted, a read raised, given up at any point, also before the first
\* chunk was asked for), the connection is closed.
C5_HttpReaderClosesConnection ==
    (gen.kind = "http" /\ ReaderEnded) => source.state = "closed"

\* C6: a media URL whose scheme is neither http nor https is refused with
\* an HTTPException of status 400 by _iter_http_chunks and by
\* _transcode_to_mp3 alike: no connection to it is tried, and no
\* subprocess, feeder or iterator is created.
C6_NonHttpSchemeRejected ==
    request.url \in NonHttpUrls
        => /\ source.state = "none"
           /\ proc.state = "none"
           /\ feeder.pc = "none"
           /\ gen.kind = "none"
           /\ \/ pc = "ensure_scheme"
              \/ /\ pc = "failed"
                 /\ error.type = "HTTPException"
                 /\ error.status_code = 400

\* _transcode_to_mp3 refused a file URL the metadata service returned.
C6_Witness ==
    /\ format = "mp3"
    /\ request.url = FileUrl
    /\ pc = "failed"
    /\ error.at = "ensure_scheme"

\* C7: when the first response holds exactly one candidate,
\* _extract_stream_info makes that one call only and returns the candidate
\* as the descriptor, with a fallback selector or without.
C7_SingleCandidateOneCall ==
    (shapes # <<>> /\ shapes[1] = "single")
        => /\ calls = <<format_selector>>
           /\ info.id = 1
           /\ stream = Candidates(info)[1]
           /\ pc = "failed" => error.at \notin Extracting

\* _extract_stream_info returned the only candidate to
\* prepare_video_stream, which gave it a fallback selector.
C7_Witness ==
    /\ format = "video"
    /\ shapes = <<"single">>
    /\ pc = "prepare"

\* C8: _extract_stream_info never makes more than two calls, and when the
\* first response holds two candidates or more and there is a fallback
\* selector, it makes exactly one more call, with the fallback selector,
\* whatever the response to it.
C8_MultipleCandidatesOneFallback ==
    /\ Len(ResolutionCalls) <= 2
    /\ (/\ shapes # <<>>
        /\ shapes[1] = "multiple"
        /\ format = "video"
        /\ pc # "extract_fallback")
           => /\ calls = <<VIDEO_FORMAT_SELECTOR, VIDEO_FALLBACK_FORMAT>>
              /\ Len(shapes) = 2

\* The call with the fallback selector got several candidates again, and
\* no third call follows.
C8_Witness ==
    /\ shapes = <<"multiple", "multiple">>
    /\ pc = "failed"
    /\ error = StreamUnavailable

C10_SetupFailuresPrecedeResponse ==
    /\ error # NoError
          => /\ response = None
             /\ yielded = <<>>
             /\ gen.pc \in {"none", "unstarted"}
    /\ response # None
          => /\ error = NoError
             /\ source.state \in {"open", "closed"}
             /\ gen.kind # "none"
             /\ format = "mp3" => (proc.state # "none" /\ feeder.pc # "none")
    /\ yielded # <<>> => response # None

\* The last step of the setup failed: ffmpeg could not be started.
C10_Witness ==
    /\ pc = "failed"
    /\ error.at = "popen"
    /\ response = None

\* The request exists: prepare_* has called _iter_http_chunks or
\* _transcode_to_mp3, which has not returned.
RequestMade ==
    request # NoRequest

\* C11: the headers of the request, for the video format and for mp3, are
\* the http_headers of the descriptor whenever that is a mapping (an empty
\* one too), or else those of the info object when that is a mapping, or
\* else none; no header of the info object is in the request when the
\* descriptor has a mapping of its own.
C11_DescriptorHeadersFirst ==
    RequestMade
        => /\ request.headers =
                 IF stream.http_headers.t = "dict"
                 THEN stream.http_headers.v
                 ELSE IF info.http_headers.t = "dict"
                      THEN info.http_headers.v
                      ELSE {}
           /\ (stream # info /\ stream.http_headers.t = "dict")
                 => request.headers \cap InfoHeaders.v = {}

\* The descriptor has an empty mapping and the info object has headers:
\* the request to the media URL of the mp3 format has none.
C11_Witness ==
    /\ format = "mp3"
    /\ pc = "urlopen"
    /\ stream.http_headers = NoHeaders
    /\ info.http_headers = InfoHeaders
    /\ request.headers = {}

\* The extension the claim gives the video format: the ext of the
\* descriptor, or else the one of the info object, or else mp4.
ResolvedExtension ==
    IF Truthy(stream.ext)
    THEN stream.ext.v
    ELSE IF Truthy(info.ext) THEN info.ext.v ELSE <<"m", "p", "4">>

\* C12: prepare_video_stream returns the resolved extension, the media type
\* video/mp4 for mp4 and video/<extension> otherwise, and the iterator over
\* the HTTP response itself, with no subprocess and no feeder;
\* prepare_mp3_stream returns audio/mpeg and mp3 whatever the ext of the
\* descriptor, and the iterator of the transcoding; what was returned does
\* not change afterwards.
C12_MetadataFromFormatAndExtension ==
    [][/\ (pc = "urlopen" /\ pc' = "title")
            => /\ format = "video"
               /\ result'.extension = ResolvedExtension
               /\ result'.media_type =
                      IF ResolvedExtension = <<"m", "p", "4">>
                      THEN <<"v", "i", "d", "e", "o", "/", "m", "p", "4">>
                      ELSE <<"v", "i", "d", "e", "o", "/">> \o ResolvedExtension
               /\ gen'.kind = "http"
               /\ proc'.state = "none"
               /\ feeder'.pc = "none"
       /\ (pc = "popen" /\ pc' = "title")
            => /\ format = "mp3"
               /\ result'.extension = <<"m", "p", "3">>
               /\ result'.media_type =
                      <<"a", "u", "d", "i", "o", "/", "m", "p", "e", "g">>
               /\ gen'.kind = "transcode"
               /\ proc'.state = "running"
       /\ (pc # "title" /\ pc' = "title") => pc \in {"urlopen", "popen"}
       /\ pc \in {"title", "respond", "returned"}
            => /\ result'.extension = result.extension
               /\ result'.media_type = result.media_type
               /\ gen'.kind = gen.kind
               /\ gen.kind = "http" => (proc'.state = "none" /\ feeder'.pc = "none")
               /\ gen.kind = "http" => yielded' = Blocks(0, source'.pos)
      ]_vars

\* prepare_video_stream returned video/webm and webm: the descriptor has
\* no ext, the info object has webm.
C12_Witness ==
    /\ format = "video"
    /\ pc = "title"
    /\ result.extension = Webm
    /\ result.media_type = <<"v", "i", "d", "e", "o", "/", "w", "e", "b", "m">>
    /\ gen = [kind |-> "http", pc |-> "unstarted"]

\* C13: for the mp3 format _extract_stream_info is called with the audio
\* selector and no fallback selector: it makes one call of the service and
\* no other, and a first response with two candidates or more ends the
\* request with StreamUnavailable (HTTPException 500), with no connection
\* to a media URL and no subprocess.
C13_Mp3NeverFallsBack ==
    format = "mp3"
        => /\ ResolutionCalls \in {<<>>, <<AUDIO_FORMAT_SELECTOR>>}
           /\ Len(shapes) <= 1
           /\ (shapes # <<>> /\ shapes[1] = "multiple")
                 => /\ \/ pc \in {"extract_fallback", "extract_return"}
                       \/ pc = "failed" /\ error = StreamUnavailable
                    /\ stream = None
                    /\ request = NoRequest
                    /\ source.state = "none"
                    /\ proc.state = "none"
                    /\ feeder.pc = "none"
                    /\ gen.kind = "none"

\* The one call of prepare_mp3_stream got two candidates: the request
\* failed with StreamUnavailable.
C13_Witness ==
    /\ format = "mp3"
    /\ shapes = <<"multiple">>
    /\ calls = <<AUDIO_FORMAT_SELECTOR>>
    /\ pc = "failed"
    /\ error = StreamUnavailable

\* stream has called fetch_video_title.
TitleFetched ==
    calls # <<>> /\ calls[Len(calls)] = NoSelector

\* C14: fetch_video_title is called only after build_stream has returned
\* the iterator; its failure, with an HTTPException of any status, does not
\* end the request and changes neither the iterator nor what it reads from
\* nor the media type: the filename is download.<extension>, and the
\* response is created with that media type and filename.
C14_TitleFailureKeepsStream ==
    /\ [](TitleFetched
            => /\ pc \in {"respond", "returned"}
               /\ error = NoError
               /\ gen.kind # "none"
               /\ result.media_type # <<>>)
    /\ [](result.title_error # 0
            => /\ TitleFetched
               /\ result.filename =
                      <<"d", "o", "w", "n", "l", "o", "a", "d", ".">>
                          \o result.extension
               /\ response # None
                     => /\ response.media_type = result.media_type
                        /\ response.filename = result.filename)
    /\ [][(pc = "title" /\ pc' # "title")
            => /\ pc' = "respond"
               /\ pipeline' = pipeline
               /\ result'.media_type = result.media_type
               /\ result'.extension = result.extension]_vars
    /\ [][pc = "respond" => result' = result]_vars

\* The title fetch failed with status 400, and the whole output of the
\* subprocess was delivered under the name download.mp3.
C14_Witness ==
    /\ result.title_error = 400
    /\ response # None
    /\ response.filename = <<"d", "o", "w", "n", "l", "o", "a", "d", ".", "m", "p", "3">>
    /\ response.media_type = AudioMpeg
    /\ gen = [kind |-> "transcode", pc |-> "done"]
    /\ proc.out = MaxOut
    /\ yielded = Blocks(0, MaxOut)

\* _extract_stream_info has decided whether to ask the service again.
FallbackDecided ==
    shapes # <<>> /\ pc \notin {"extract_primary", "extract_fallback"}

C16_TruncatedSourceEndsWithError ==
    (/\ gen.kind = "transcode"
     /\ feeder.why = "read raised"
     /\ 0 < source.pos
     /\ source.pos < source.size)
        => gen.pc # "done"

\* C17: with a finite body, bounded pipes, and the feeder, the subprocess
\* and the consumer going on while they can, an iterator of
\* _transcode_to_mp3 that was started always ends: normally, by raising,
\* or given up.
C17_StartedReaderEnds ==
    (gen.kind = "transcode" /\ gen.pc = "read") ~> ReaderEnded

\* The consumer gave up an iterator of _transcode_to_mp3 that was started:
\* its finally block has run.
GivenUpStarted ==
    gen.kind = "transcode" /\ gen.pc = "closed" /\ handles.stdout > 0

\* The feeder thread has ended.
FeederEnded ==
    feeder.pc \in {"done", "raised"}

\* C18: when the consumer gives up an iterator of _transcode_to_mp3 that
\* was started, stdout and stderr are closed and the subprocess has ended;
\* from then on the feeder ends and the source is closed; a feeder whose
\* write met the broken pipe leaves its loop with no exception, and the
\* iterator stays given up: it does not raise.
C18_GivenUpReaderStopsFeeder ==
    /\ [](GivenUpStarted
            => /\ handles.stdout = 1
               /\ handles.stderr = 1
               /\ proc.state = "exited"
               /\ proc.reaped)
    /\ [][GivenUpStarted => gen' = gen]_vars
    /\ [][(feeder.pc = "write" /\ feeder'.why = "BrokenPipeError")
            => /\ feeder'.pc = "finally"
               /\ feeder'.exc = "none"]_vars
    /\ [](feeder.why \in {"exhausted", "BrokenPipeError"}
            => feeder.exc \in {"none", "stdin.close"})
    /\ GivenUpStarted ~> (FeederEnded /\ source.state = "closed")

\* The consumer gave the iterator up after a chunk; the feeder, with a
\* chunk still to write, met the broken pipe and ended with no exception,
\* and the source is closed before its end.
C18_Witness ==
    /\ GivenUpStarted
    /\ yielded # <<>>
    /\ proc.returncode = -9
    /\ feeder.pc = "done"
    /\ feeder.why = "BrokenPipeError"
    /\ source.state = "closed"
    /\ source.pos < source.size

\* C19: however the loop of pump ended (end of the body, broken pipe, an
\* exception of source.read or of stdin.write), the feeder closes stdin and
\* then the source, the source also when stdin.close() raised: a feeder
\* that has ended has closed both, once each, and the source is closed in
\* the very step that closes stdin.
C19_FeederClosesBoth ==
    /\ [](FeederEnded
            => /\ feeder.why # "none"
               /\ handles.stdin = 1
               /\ source.state = "closed")
    /\ [](feeder.pc \in {"read", "write", "finally"}
            => /\ handles.stdin = 0
               /\ source.state = "open")
    /\ [][feeder.pc = "finally" /\ feeder'.pc # "finally"
            => /\ FeederEnded'
               /\ source'.state = "closed"]_vars

\* stdin.close() raised after the end of the body: the feeder ended with
\* that exception, and the source is closed.
C19_Witness ==
    /\ feeder.pc = "raised"
    /\ feeder.why = "exhausted"
    /\ feeder.exc = "stdin.close"
    /\ handles.stdin = 1
    /\ source.state = "closed"

\* The bytes of n blocks.
Bytes(n) ==
    n * BlockBytes

\* C20: in the transcoding the feeder holds one chunk of at most
\* STREAM_CHUNK_SIZE bytes and none while it reads; it reads from the
\* source only when the chunk before was written whole to stdin, and it
\* writes only into the room the stdin pipe has; the iterator yields at
\* most STREAM_CHUNK_SIZE bytes at a time; so what the source has served
\* and the subprocess has not yet taken is never more than a chunk and a
\* pipe, whatever the size of the body.
C20_InFlightBounded ==
    /\ [](gen.kind = "transcode"
            => /\ Bytes(feeder.chunk) <= STREAM_CHUNK_SIZE
               /\ feeder.pc = "write" <=> feeder.chunk > 0
               /\ pipes.stdin <= PipeCap
               /\ Len(pipes.stdout) <= PipeCap
               /\ pipes.stderr <= PipeCap
               /\ Bytes(feeder.chunk + pipes.stdin)
                     <= STREAM_CHUNK_SIZE + Bytes(PipeCap))
    /\ [][source'.pos # source.pos /\ feeder.pc # "none"
            => /\ feeder.pc = "read"
               /\ feeder.chunk = 0
               /\ feeder'.chunk = source'.pos - source.pos]_vars
    /\ [][pipes'.stdin > pipes.stdin
            => /\ feeder.pc = "write"
               /\ pipes'.stdin - pipes.stdin = feeder.chunk - feeder'.chunk]_vars
    /\ [][gen.kind = "transcode"
            => Bytes(Len(yielded') - Len(yielded)) <= STREAM_CHUNK_SIZE]_vars

\* The feeder holds the rest of a chunk of a body larger than the pipe
\* while the stdin pipe is full: its write is blocked, and it has read no
\* further.
C20_Witness ==
    /\ feeder.pc = "write"
    /\ feeder.chunk > 0
    /\ pipes.stdin = PipeCap
    /\ proc.state = "running"
    /\ source.size > PipeCap
    /\ source.size > ChunkBlocks

\* The entries of the list the program takes the candidates of a response
\* from: requested_downloads when that is true, or else requested_formats.
CandidateList(i) ==
    LET raw == IF Truthy(i.requested_downloads)
               THEN i.requested_downloads
               ELSE i.requested_formats
    IN  IF raw.t = "list" THEN raw.v ELSE <<>>

\* C21: the descriptor _extract_stream_info holds, and returns, is selected
\* from the info object it holds and returns: it is the only candidate of
\* that info object, a dict, or that info object itself, which then has no
\* candidate and a url string; never one of several candidates.  The info
\* object is the response of the last call made: after a call with the
\* fallback selector, the response to that call.
C21_ReturnedPairConsistent ==
    /\ stream # None
          => /\ info # None
             /\ \/ /\ Len(CandidateList(info)) = 1
                   /\ stream = CandidateList(info)[1]
                   /\ stream.t = "dict"
                \/ /\ Len(CandidateList(info)) = 0
                   /\ stream = info
                   /\ info.url.t = "str"
    /\ (info # None /\ shapes # <<>>)
          => info.id = Len(SelectSeq(shapes,
                 LAMBDA k : k \notin {"DownloadError", "Exception"}))
    /\ pc = "prepare"
          => /\ stream # None
             /\ info.id = Len(ResolutionCalls)

\* After a first response with two candidates, the call with the fallback
\* selector returned an info object with a url of its own:
\* _extract_stream_info returns that info object, as info and as the
\* descriptor.
C21_Witness ==
    /\ pc = "prepare"
    /\ shapes = <<"multiple", "toplevel">>
    /\ info.id = 2
    /\ stream = info

====
